---- MODULE Spec2Model ----
(***************************************************************************)
(* Model of scrape_ncbi_synonyms.py: the name normaliser, the query        *)
(* candidate generator, the two remote calls (esearch / efetch) and the    *)
(* row pipeline of main with its three in-memory caches.                   *)
(*                                                                         *)
(* Python strings are modelled as sequences of one-character strings, so   *)
(* that strip / replace / endswith / rsplit / lower / join are computed    *)
(* as the code computes them.  Python None is the value None below.        *)
(***************************************************************************)
EXTENDS Integers, Sequences, FiniteSets, TLC

VARIABLES
    rows,             \* main: rows read from the input CSV (after --limit)
    name_candidates,  \* main: Dict[key, List[str]] built by the pre-scan
    query_cache,      \* main: Dict[str, Optional[str]]
    taxid_cache,      \* main: Dict[key, Optional[str]]
    synonym_cache,    \* main: Dict[str, str]
    updated_rows,     \* main: output records appended so far
    idx,              \* main: 0-based position of the row being processed
    key,              \* main: local `key`
    queries,          \* main: local `queries`
    qi,               \* main: position of `for query in queries` (1-based)
    taxid,            \* main: local `taxid`
    synonyms_ncbi,    \* main: local `synonyms_ncbi`
    pc,               \* main: control point
    written,          \* TRUE once the output file has been written
    log,              \* history of row starts, network requests and sleeps
    cq_args,          \* arguments of a direct call of the pure functions
    cq_ret,           \* value returned by candidate_queries
    cq_key,           \* value returned by build_key
    cq_pc             \* position of the direct-call harness

vars == <<rows, name_candidates, query_cache, taxid_cache, synonym_cache,
          updated_rows, idx, key, queries, qi, taxid, synonyms_ncbi, pc,
          written, log, cq_args, cq_ret, cq_key, cq_pc>>

mainVars == <<rows, name_candidates, query_cache, taxid_cache, synonym_cache,
              updated_rows, idx, key, queries, qi, taxid, synonyms_ncbi, pc,
              written, log>>

cqVars == <<cq_args, cq_ret, cq_key, cq_pc>>

----------------------------------------------------------------------------
(* Bounds *)

MaxRows == 2

MaxStemLen == 2

----------------------------------------------------------------------------
(* Python values *)

None == <<"None">>

Truthy(x) == x # None /\ x # <<>>

EmptyDict == [x \in {} |-> None]

DictSet(d, k, v) == [x \in (DOMAIN d) \cup {k} |-> IF x = k THEN v ELSE d[x]]

DictGet(d, k, default) == IF k \in DOMAIN d THEN d[k] ELSE default

SetDefault(d, k, v) == IF k \in DOMAIN d THEN d ELSE DictSet(d, k, v)

----------------------------------------------------------------------------
(* str methods *)

IsSpace(c) == c \in {" ", "\t", "\n", "\r"}

Replace(s, old, new) == [i \in 1..Len(s) |-> IF s[i] = old THEN new ELSE s[i]]

RECURSIVE LStrip(_)
LStrip(s) == IF s # <<>> /\ IsSpace(Head(s)) THEN LStrip(Tail(s)) ELSE s

RECURSIVE RStrip(_)
RStrip(s) ==
    IF s # <<>> /\ IsSpace(s[Len(s)]) THEN RStrip(SubSeq(s, 1, Len(s) - 1)) ELSE s

Strip(s) == RStrip(LStrip(s))

LowerChar(c) ==
    CASE c = "F" -> "f"
      [] c = "B" -> "b"
      [] c = "S" -> "s"
      [] c = "P" -> "p"
      [] OTHER -> c

Lower(s) == [i \in 1..Len(s) |-> LowerChar(s[i])]

EndsWith(s, suffix) ==
    /\ Len(s) >= Len(suffix)
    /\ SubSeq(s, Len(s) - Len(suffix) + 1, Len(s)) = suffix

\* s.rsplit(" ", 1)[0]
RSplitHead(s) ==
    LET spaces == {i \in 1..Len(s) : s[i] = " "}
    IN  IF spaces = {} THEN s
        ELSE SubSeq(s, 1, (CHOOSE i \in spaces : \A j \in spaces : j <= i) - 1)

Digits == <<"0", "1", "2", "3", "4", "5", "6", "7", "8", "9">>

RECURSIVE IntToStr(_)
IntToStr(n) ==
    IF n < 10 THEN <<Digits[n + 1]>>
    ELSE IntToStr(n \div 10) \o <<Digits[(n % 10) + 1]>>

InSeq(x, s) == \E i \in 1..Len(s) : s[i] = x

\* list(OrderedDict.fromkeys(seq))
RECURSIVE DedupInto(_, _)
DedupInto(acc, s) ==
    IF s = <<>> THEN acc
    ELSE DedupInto(IF InSeq(Head(s), acc) THEN acc ELSE Append(acc, Head(s)), Tail(s))

OrderedDictFromKeys(s) == DedupInto(<<>>, s)

RECURSIVE FilterNonEmpty(_)
FilterNonEmpty(s) ==
    IF s = <<>> THEN <<>>
    ELSE (IF Head(s) # <<>> THEN <<Head(s)>> ELSE <<>>) \o FilterNonEmpty(Tail(s))

\* sep.join(parts)
RECURSIVE Join(_, _)
Join(sep, parts) ==
    IF parts = <<>> THEN <<>>
    ELSE IF Len(parts) = 1 THEN parts[1]
    ELSE parts[1] \o sep \o Join(sep, Tail(parts))

----------------------------------------------------------------------------
(* Name normaliser and query candidate generator *)

format_scientific_name(name) == Strip(Replace(name, "_", " "))

format_common_name(name) == Strip(Replace(name, "_", " "))

build_key(scientific, common, fallback_index) ==
    LET sci == format_scientific_name(scientific)
        com == format_common_name(common)
    IN  IF sci # <<>> THEN <<"sci", sci>>
        ELSE IF com # <<>> THEN <<"com", com>>
        ELSE <<"row", IntToStr(fallback_index)>>

SpeciesSuffix(lower) ==
    \/ EndsWith(lower, <<" ", "s", "p", ".">>)
    \/ EndsWith(lower, <<" ", "s", "p">>)
    \/ EndsWith(lower, <<" ", "s", "p", "p", ".">>)
    \/ EndsWith(lower, <<" ", "s", "p", "p">>)

\* candidate_queries with the trailing-period branch made exclusive of the
\* species-suffix branch
candidate_queries_exclusive(scientific, common) ==
    LET sci == format_scientific_name(scientific)
        com == format_common_name(common)
        c1  == IF sci # <<>> THEN <<sci>> ELSE <<>>
        c3  == IF sci # <<>> /\ SpeciesSuffix(Lower(sci))
               THEN <<RSplitHead(sci)>> ELSE <<>>
        c2  == IF sci # <<>> /\ c3 = <<>> /\ EndsWith(sci, <<".">>)
               THEN <<SubSeq(sci, 1, Len(sci) - 1)>> ELSE <<>>
        c4  == IF com # <<>> THEN <<com>> ELSE <<>>
    IN  OrderedDictFromKeys(FilterNonEmpty(c1 \o c2 \o c3 \o c4))

\* candidate_queries without the `if sci:` / `if com:` guards and the
\* `if c` filter
candidate_queries_unfiltered(scientific, common) ==
    LET sci == format_scientific_name(scientific)
        com == format_common_name(common)
        c2  == IF EndsWith(sci, <<".">>)
               THEN <<SubSeq(sci, 1, Len(sci) - 1)>> ELSE <<>>
        c3  == IF SpeciesSuffix(Lower(sci)) THEN <<RSplitHead(sci)>> ELSE <<>>
    IN  OrderedDictFromKeys(<<sci>> \o c2 \o c3 \o <<com>>)

candidate_queries(scientific, common) ==
    LET sci == format_scientific_name(scientific)
        com == format_common_name(common)
        c1  == IF sci # <<>> THEN <<sci>> ELSE <<>>
        c2  == IF sci # <<>> /\ EndsWith(sci, <<".">>)
               THEN <<SubSeq(sci, 1, Len(sci) - 1)>> ELSE <<>>
        c3  == IF sci # <<>> /\ SpeciesSuffix(Lower(sci))
               THEN <<RSplitHead(sci)>> ELSE <<>>
        c4  == IF com # <<>> THEN <<com>> ELSE <<>>
    IN  OrderedDictFromKeys(FilterNonEmpty(c1 \o c2 \o c3 \o c4))

----------------------------------------------------------------------------
(* Remote calls.  A response is what SESSION.get + raise_for_status gives:   *)
(* a transport error, an HTTP error status, or a 200 body that is either     *)
(* not well-formed XML or an element tree.                                   *)

Returned(v) == [raised |-> FALSE, value |-> v]

Raised == [raised |-> TRUE, value |-> None]

IsRequestException(resp) == resp.status \in {"transport", "http"}

\* for id_elem in id_list.findall("Id"): if id_elem.text: return text.strip()
RECURSIVE FirstIdText(_)
FirstIdText(ids) ==
    IF ids = <<>> THEN None
    ELSE IF Truthy(Head(ids)) THEN Strip(Head(ids))
    ELSE FirstIdText(Tail(ids))

\* search_taxid without the try/except around the request
search_taxid_uncaught(resp) ==
    IF IsRequestException(resp) THEN Raised
    ELSE IF ~resp.wellformed THEN Raised
    ELSE IF ~resp.hasIdList THEN Returned(None)
    ELSE Returned(FirstIdText(resp.ids))

search_taxid(resp) ==
    IF IsRequestException(resp) THEN Returned(None)
    ELSE IF ~resp.wellformed THEN Raised
    ELSE IF ~resp.hasIdList THEN Returned(None)
    ELSE Returned(FirstIdText(resp.ids))

synonym_tags == <<"Synonym", "EquivalentName", "GenbankSynonym",
                  "GenbankCommonName", "CommonName">>

\* for elem in other_names.findall(tag): text = strip or ""; if text: append
RECURSIVE TagTexts(_, _)
TagTexts(elems, tag) ==
    IF elems = <<>> THEN <<>>
    ELSE LET e    == Head(elems)
             text == IF Truthy(e.text) THEN Strip(e.text) ELSE <<>>
         IN  (IF e.tag = tag /\ text # <<>> THEN <<text>> ELSE <<>>)
             \o TagTexts(Tail(elems), tag)

RECURSIVE AllTagTexts(_, _)
AllTagTexts(elems, tags) ==
    IF tags = <<>> THEN <<>>
    ELSE TagTexts(elems, Head(tags)) \o AllTagTexts(elems, Tail(tags))

\* for name_elem in other_names.findall("Name"): disp = findtext("DispName")
RECURSIVE DispNames(_)
DispNames(elems) ==
    IF elems = <<>> THEN <<>>
    ELSE LET e == Head(elems)
         IN  (IF e.tag = "Name" /\ Truthy(e.disp) THEN <<Strip(e.disp)>> ELSE <<>>)
             \o DispNames(Tail(elems))

RECURSIVE StripAll(_)
StripAll(s) == IF s = <<>> THEN <<>> ELSE <<Strip(Head(s))>> \o StripAll(Tail(s))

extract_synonyms(xml) ==
    IF ~xml.wellformed THEN Raised
    ELSE IF ~xml.hasTaxon THEN Returned(<<>>)
    ELSE IF ~xml.hasOtherNames THEN Returned(<<>>)
    ELSE LET values == AllTagTexts(xml.elems, synonym_tags) \o DispNames(xml.elems)
         IN  Returned(OrderedDictFromKeys(FilterNonEmpty(StripAll(values))))

fetch_synonyms_for_taxid(resp) ==
    IF IsRequestException(resp) THEN Returned(<<>>)
    ELSE extract_synonyms(resp)

----------------------------------------------------------------------------
(* Inputs: raw CSV rows and the responses the remote service can give *)

Row(sci, com) == [food_sci |-> sci, food_com |-> com]

RowPool ==
    { Row(<<"F", "o", " ", "s", "p", ".">>, <<"y", "a", "m">>),
      Row(<<"F", "o">>, <<>>),
      Row(<<"F", "o", "_">>, <<"y", "a", "m">>),
      Row(<<>>, <<" ", "F", "o">>),
      Row(<<"_">>, <<" ">>) }

RECURSIVE SeqsUpTo(_, _)
SeqsUpTo(S, n) ==
    IF n = 0 THEN {<<>>}
    ELSE LET shorter == SeqsUpTo(S, n - 1)
         IN  shorter \cup {Append(s, x) : s \in {t \in shorter : Len(t) = n - 1}, x \in S}

SearchResp(status, wellformed, hasIdList, ids) ==
    [status |-> status, wellformed |-> wellformed, hasIdList |-> hasIdList, ids |-> ids]

SearchResponses ==
    { SearchResp("transport", FALSE, FALSE, <<>>),
      SearchResp("http", FALSE, FALSE, <<>>),
      SearchResp("ok", FALSE, FALSE, <<>>),
      SearchResp("ok", TRUE, FALSE, <<>>),
      SearchResp("ok", TRUE, TRUE, <<>>),
      SearchResp("ok", TRUE, TRUE, << <<" ">> >>),
      SearchResp("ok", TRUE, TRUE, <<None, <<"7">> >>),
      SearchResp("ok", TRUE, TRUE, << <<"9", " ">>, <<"7">> >>) }

Elem(tag, text, disp) == [tag |-> tag, text |-> text, disp |-> disp]

FetchResp(status, wellformed, hasTaxon, hasOtherNames, elems) ==
    [status |-> status, wellformed |-> wellformed, hasTaxon |-> hasTaxon,
     hasOtherNames |-> hasOtherNames, elems |-> elems]

FetchResponses ==
    { FetchResp("transport", FALSE, FALSE, FALSE, <<>>),
      FetchResp("http", FALSE, FALSE, FALSE, <<>>),
      FetchResp("ok", FALSE, FALSE, FALSE, <<>>),
      FetchResp("ok", TRUE, FALSE, FALSE, <<>>),
      FetchResp("ok", TRUE, TRUE, FALSE, <<>>),
      FetchResp("ok", TRUE, TRUE, TRUE,
                << Elem("CommonName", <<" ", "y", " ">>, None),
                   Elem("Name", None, <<"y">>),
                   Elem("Synonym", <<"F">>, None),
                   Elem("Synonym", None, None),
                   Elem("Name", None, <<"G", " ">>) >>) }

----------------------------------------------------------------------------
(* History of the run *)

Event(ev, arg, res) == [ev |-> ev, row |-> idx, arg |-> arg, res |-> res]

ResponseKind(resp) ==
    IF IsRequestException(resp) THEN "error"
    ELSE IF ~resp.wellformed THEN "malformed"
    ELSE "ok"

----------------------------------------------------------------------------
(* main *)

\* for idx, row in enumerate(rows): name_candidates.setdefault(key, queries)
RECURSIVE PrescanFrom(_, _, _)
PrescanFrom(rs, i, nc) ==
    IF i >= Len(rs) THEN nc
    ELSE LET row == rs[i + 1]
             k   == build_key(row.food_sci, row.food_com, i)
             qs  == candidate_queries(row.food_sci, row.food_com)
         IN  PrescanFrom(rs, i + 1, IF qs # <<>> THEN SetDefault(nc, k, qs) ELSE nc)

\* `if not query_cache.get(query)` instead of `if query not in query_cache`
InQueryCache_truthy(query) ==
    query \in DOMAIN query_cache /\ Truthy(query_cache[query])

InQueryCache(query) == query \in DOMAIN query_cache

\* `if taxid_cache.get(key)` instead of `if key in taxid_cache`
InTaxidCache_truthy(k) == k \in DOMAIN taxid_cache /\ Truthy(taxid_cache[k])

InTaxidCache(k) == k \in DOMAIN taxid_cache

\* `if not synonym_cache.get(taxid)` instead of `if taxid not in synonym_cache`
InSynonymCache_nonempty(t) == t \in DOMAIN synonym_cache /\ synonym_cache[t] # <<>>

InSynonymCache(t) == t \in DOMAIN synonym_cache

NoCqChange == UNCHANGED cqVars

Prescan ==
    /\ pc = "prescan"
    /\ name_candidates' = PrescanFrom(rows, 0, EmptyDict)
    /\ pc' = "row"
    /\ UNCHANGED <<rows, query_cache, taxid_cache, synonym_cache, updated_rows,
                   idx, key, queries, qi, taxid, synonyms_ncbi, written, log>>
    /\ NoCqChange

\* lines 202-218: start of one iteration of the main pass
NextRow ==
    /\ pc = "row"
    /\ idx < Len(rows)
    /\ LET row == rows[idx + 1]
           k   == build_key(row.food_sci, row.food_com, idx)
       IN  /\ key' = k
           /\ queries' = DictGet(name_candidates, k, <<>>)
           /\ synonyms_ncbi' = <<>>
           /\ qi' = 1
           /\ IF InTaxidCache(k)
              THEN /\ taxid' = taxid_cache[k]
                   /\ pc' = "fetch_check"
                   /\ log' = Append(log, Event("row", k, "hit"))
              ELSE /\ taxid' = None
                   /\ pc' = "loop"
                   /\ log' = Append(log, Event("row", k, "miss"))
    /\ UNCHANGED <<rows, name_candidates, query_cache, taxid_cache, synonym_cache,
                   updated_rows, idx, written>>
    /\ NoCqChange

\* line 222: query_cache[query] = search_taxid(query)
SearchRequest ==
    /\ pc = "loop"
    /\ qi <= Len(queries)
    /\ ~InQueryCache(queries[qi])
    /\ \E resp \in SearchResponses :
          LET ret == search_taxid(resp)
          IN  /\ log' = Append(log, Event("search", queries[qi], ResponseKind(resp)))
              /\ IF ret.raised
                 THEN /\ pc' = "aborted"
                      /\ UNCHANGED query_cache
                 ELSE /\ pc' = "search_sleep"
                      /\ query_cache' = DictSet(query_cache, queries[qi], ret.value)
    /\ UNCHANGED <<rows, name_candidates, taxid_cache, synonym_cache, updated_rows,
                   idx, key, queries, qi, taxid, synonyms_ncbi, written>>
    /\ NoCqChange

\* the sleep moved under `if taxid:`
SearchSleep_onlyOnSuccess ==
    /\ pc = "search_sleep"
    /\ log' = IF Truthy(query_cache[queries[qi]])
              THEN Append(log, Event("sleep", <<>>, "ok")) ELSE log
    /\ pc' = "read_query"
    /\ UNCHANGED <<rows, name_candidates, query_cache, taxid_cache, synonym_cache,
                   updated_rows, idx, key, queries, qi, taxid, synonyms_ncbi, written>>
    /\ NoCqChange

\* line 223: time.sleep(THROTTLE_SECONDS)
SearchSleep ==
    /\ pc = "search_sleep"
    /\ log' = Append(log, Event("sleep", <<>>, "ok"))
    /\ pc' = "read_query"
    /\ UNCHANGED <<rows, name_candidates, query_cache, taxid_cache, synonym_cache,
                   updated_rows, idx, key, queries, qi, taxid, synonyms_ncbi, written>>
    /\ NoCqChange

\* line 221, false branch: the query is already in query_cache
QueryCached ==
    /\ pc = "loop"
    /\ qi <= Len(queries)
    /\ InQueryCache(queries[qi])
    /\ pc' = "read_query"
    /\ UNCHANGED <<rows, name_candidates, query_cache, taxid_cache, synonym_cache,
                   updated_rows, idx, key, queries, qi, taxid, synonyms_ncbi,
                   written, log>>
    /\ NoCqChange

\* the loop without `if taxid: break`
ReadQuery_nobreak ==
    /\ pc = "read_query"
    /\ taxid' = DictGet(query_cache, queries[qi], None)
    /\ pc' = "loop"
    /\ qi' = qi + 1
    /\ UNCHANGED <<rows, name_candidates, query_cache, taxid_cache, synonym_cache,
                   updated_rows, idx, key, queries, synonyms_ncbi, written, log>>
    /\ NoCqChange

\* lines 224-226: taxid = query_cache[query]; if taxid: break
ReadQuery ==
    /\ pc = "read_query"
    /\ taxid' = DictGet(query_cache, queries[qi], None)
    /\ IF Truthy(taxid')
       THEN pc' = "store" /\ UNCHANGED qi
       ELSE pc' = "loop" /\ qi' = qi + 1
    /\ UNCHANGED <<rows, name_candidates, query_cache, taxid_cache, synonym_cache,
                   updated_rows, idx, key, queries, synonyms_ncbi, written, log>>
    /\ NoCqChange

\* line 220: the for loop runs out of candidates
LoopExhausted ==
    /\ pc = "loop"
    /\ qi > Len(queries)
    /\ pc' = "store"
    /\ UNCHANGED <<rows, name_candidates, query_cache, taxid_cache, synonym_cache,
                   updated_rows, idx, key, queries, qi, taxid, synonyms_ncbi,
                   written, log>>
    /\ NoCqChange

\* line 227: taxid_cache[key] = taxid
StoreTaxid ==
    /\ pc = "store"
    /\ taxid_cache' = DictSet(taxid_cache, key, taxid)
    /\ pc' = "fetch_check"
    /\ UNCHANGED <<rows, name_candidates, query_cache, synonym_cache, updated_rows,
                   idx, key, queries, qi, taxid, synonyms_ncbi, written, log>>
    /\ NoCqChange

\* line 229, false branch
SkipFetch ==
    /\ pc = "fetch_check"
    /\ ~Truthy(taxid)
    /\ pc' = "emit"
    /\ UNCHANGED <<rows, name_candidates, query_cache, taxid_cache, synonym_cache,
                   updated_rows, idx, key, queries, qi, taxid, synonyms_ncbi,
                   written, log>>
    /\ NoCqChange

\* the result cached only `if synonyms:`
FetchRequest_cacheNonEmpty ==
    /\ pc = "fetch_check"
    /\ Truthy(taxid)
    /\ ~InSynonymCache(taxid)
    /\ \E resp \in FetchResponses :
          LET ret == fetch_synonyms_for_taxid(resp)
          IN  /\ log' = Append(log, Event("fetch", taxid, ResponseKind(resp)))
              /\ IF ret.raised
                 THEN /\ pc' = "aborted"
                      /\ UNCHANGED synonym_cache
                 ELSE /\ pc' = "fetch_sleep"
                      /\ synonym_cache' =
                            IF ret.value = <<>> THEN synonym_cache
                            ELSE DictSet(synonym_cache, taxid, Join(<<";", " ">>, ret.value))
    /\ UNCHANGED <<rows, name_candidates, query_cache, taxid_cache, updated_rows,
                   idx, key, queries, qi, taxid, synonyms_ncbi, written>>
    /\ NoCqChange

\* lines 231-232: synonym_cache[taxid] = "; ".join(fetch_synonyms_for_taxid(taxid))
FetchRequest ==
    /\ pc = "fetch_check"
    /\ Truthy(taxid)
    /\ ~InSynonymCache(taxid)
    /\ \E resp \in FetchResponses :
          LET ret == fetch_synonyms_for_taxid(resp)
          IN  /\ log' = Append(log, Event("fetch", taxid, ResponseKind(resp)))
              /\ IF ret.raised
                 THEN /\ pc' = "aborted"
                      /\ UNCHANGED synonym_cache
                 ELSE /\ pc' = "fetch_sleep"
                      /\ synonym_cache' =
                            DictSet(synonym_cache, taxid, Join(<<";", " ">>, ret.value))
    /\ UNCHANGED <<rows, name_candidates, query_cache, taxid_cache, updated_rows,
                   idx, key, queries, qi, taxid, synonyms_ncbi, written>>
    /\ NoCqChange

\* line 233: time.sleep(THROTTLE_SECONDS)
FetchSleep ==
    /\ pc = "fetch_sleep"
    /\ log' = Append(log, Event("sleep", <<>>, "ok"))
    /\ pc' = "read_synonyms"
    /\ UNCHANGED <<rows, name_candidates, query_cache, taxid_cache, synonym_cache,
                   updated_rows, idx, key, queries, qi, taxid, synonyms_ncbi, written>>
    /\ NoCqChange

\* line 230, false branch: the identifier is already in synonym_cache
SynonymCached ==
    /\ pc = "fetch_check"
    /\ Truthy(taxid)
    /\ InSynonymCache(taxid)
    /\ pc' = "read_synonyms"
    /\ UNCHANGED <<rows, name_candidates, query_cache, taxid_cache, synonym_cache,
                   updated_rows, idx, key, queries, qi, taxid, synonyms_ncbi,
                   written, log>>
    /\ NoCqChange

\* line 234: synonyms_ncbi = synonym_cache.get(taxid, "")
ReadSynonyms ==
    /\ pc = "read_synonyms"
    /\ synonyms_ncbi' = DictGet(synonym_cache, taxid, <<>>)
    /\ pc' = "emit"
    /\ UNCHANGED <<rows, name_candidates, query_cache, taxid_cache, synonym_cache,
                   updated_rows, idx, key, queries, qi, taxid, written, log>>
    /\ NoCqChange

\* lines 236-245: updated_rows.append({...})
EmitRow ==
    /\ pc = "emit"
    /\ updated_rows' = Append(updated_rows,
                              [food_com |-> rows[idx + 1].food_com,
                               food_sci |-> rows[idx + 1].food_sci,
                               synonyms_ncbi |-> synonyms_ncbi])
    /\ idx' = idx + 1
    /\ pc' = "row"
    /\ UNCHANGED <<rows, name_candidates, query_cache, taxid_cache, synonym_cache,
                   key, queries, qi, taxid, synonyms_ncbi, written, log>>
    /\ NoCqChange

\* lines 247-261: the output file is written after the last row
WriteOutput ==
    /\ pc = "row"
    /\ idx = Len(rows)
    /\ written' = TRUE
    /\ pc' = "done"
    /\ UNCHANGED <<rows, name_candidates, query_cache, taxid_cache, synonym_cache,
                   updated_rows, idx, key, queries, qi, taxid, synonyms_ncbi, log>>
    /\ NoCqChange

CqIdle ==
    /\ cq_args = [scientific |-> <<>>, common |-> <<>>, fallback_index |-> 0]
    /\ cq_ret = <<>>
    /\ cq_key = <<>>
    /\ cq_pc = "idle"

\* lines 161-174 and 195-201: rows loaded, caches empty
Init ==
    /\ rows \in SeqsUpTo(RowPool, MaxRows)
    /\ name_candidates = EmptyDict
    /\ query_cache = EmptyDict
    /\ taxid_cache = EmptyDict
    /\ synonym_cache = EmptyDict
    /\ updated_rows = <<>>
    /\ idx = 0
    /\ key = <<>>
    /\ queries = <<>>
    /\ qi = 1
    /\ taxid = None
    /\ synonyms_ncbi = <<>>
    /\ pc = "prescan"
    /\ written = FALSE
    /\ log = <<>>
    /\ CqIdle

Next ==
    \/ Prescan
    \/ NextRow
    \/ SearchRequest
    \/ SearchSleep
    \/ QueryCached
    \/ ReadQuery
    \/ LoopExhausted
    \/ StoreTaxid
    \/ SkipFetch
    \/ FetchRequest
    \/ FetchSleep
    \/ SynonymCached
    \/ ReadSynonyms
    \/ EmitRow
    \/ WriteOutput

Spec == Init /\ [][Next]_vars

----------------------------------------------------------------------------
(* Direct calls of the pure functions over a bounded set of raw names *)

Pads == {<<>>, <<" ">>, <<"_">>}

StemAlphabet == {"F", "o", " ", "."}

Stems == SeqsUpTo(StemAlphabet, MaxStemLen) \cup {<<"F", "o", "o">>}

Suffixes ==
    { <<>>, <<".">>, <<" ", "s", "p", ".">>, <<" ", "s", "p">>,
      <<" ", "s", "p", "p", ".">>, <<" ", "s", "p", "p">>,
      <<" ", "S", "P", ".">>, <<"_", "S", "p", "p">>, <<"s", "p", ".">> }

SciNames == {pre \o stem \o suf \o post :
                pre \in Pads, stem \in Stems, suf \in Suffixes, post \in Pads}

ComNames == {<<>>, <<" ", "_">>, <<"y", "a", "m">>, <<"F", "o", "o">>}

FallbackIndexes == {0, 12}

CallCandidateQueries ==
    /\ cq_pc = "args"
    /\ cq_ret' = candidate_queries(cq_args.scientific, cq_args.common)
    /\ cq_pc' = "queried"
    /\ UNCHANGED <<cq_args, cq_key>>
    /\ UNCHANGED mainVars

CallBuildKey ==
    /\ cq_pc = "queried"
    /\ cq_key' = build_key(cq_args.scientific, cq_args.common, cq_args.fallback_index)
    /\ cq_pc' = "done"
    /\ UNCHANGED <<cq_args, cq_ret>>
    /\ UNCHANGED mainVars

InitCQ ==
    /\ cq_args \in [scientific : SciNames, common : ComNames,
                    fallback_index : FallbackIndexes]
    /\ cq_ret = <<>>
    /\ cq_key = <<>>
    /\ cq_pc = "args"
    /\ rows = <<>>
    /\ name_candidates = EmptyDict
    /\ query_cache = EmptyDict
    /\ taxid_cache = EmptyDict
    /\ synonym_cache = EmptyDict
    /\ updated_rows = <<>>
    /\ idx = 0
    /\ key = <<>>
    /\ queries = <<>>
    /\ qi = 1
    /\ taxid = None
    /\ synonyms_ncbi = <<>>
    /\ pc = "unused"
    /\ written = FALSE
    /\ log = <<>>

NextCQ ==
    \/ CallCandidateQueries
    \/ CallBuildKey

SpecCQ == InitCQ /\ [][NextCQ]_vars

----------------------------------------------------------------------------
(* Properties *)

LogIdx == 1..Len(log)

RowKey(r) == build_key(rows[r + 1].food_sci, rows[r + 1].food_com, r)

UniqueKeys == {RowKey(r) : r \in 0..(Len(rows) - 1)}

Candidates(k) == DictGet(name_candidates, k, <<>>)

IsSearch(e) == e.ev = "search"

IsFetch(e) == e.ev = "fetch"

IsRowStart(e, res) == e.ev = "row" /\ e.res = res

FailedQueries == {log[i].arg : i \in {j \in LogIdx : IsSearch(log[j]) /\ log[j].res = "error"}}

BothEmpty(row) ==
    /\ format_scientific_name(row.food_sci) = <<>>
    /\ format_common_name(row.food_com) = <<>>

\* position of a query in a duplicate-free candidate list (0 when absent)
PosIn(q, cands) ==
    IF InSeq(q, cands) THEN CHOOSE i \in 1..Len(cands) : cands[i] = q ELSE 0

\* C1: each taxonomy identifier is the argument of at most one fetch request
\* in a run, also when it is the outcome of several keys and when the first
\* fetch failed.
C1_FetchAtMostOncePerTaxid ==
    \A i, j \in LogIdx :
        (IsFetch(log[i]) /\ IsFetch(log[j]) /\ log[i].arg = log[j].arg) => i = j

C1_Witness ==
    /\ pc = "done"
    /\ \E i \in LogIdx :
          /\ IsFetch(log[i])
          /\ log[i].res = "error"
          /\ \E k1, k2 \in DOMAIN taxid_cache :
                k1 # k2 /\ taxid_cache[k1] = log[i].arg /\ taxid_cache[k2] = log[i].arg

\* C2: each distinct query string is the argument of at most one search
\* request in a run, also when it is a candidate of several keys and when the
\* first search for it failed or found nothing.
C2_SearchAtMostOncePerQuery ==
    \A i, j \in LogIdx :
        (IsSearch(log[i]) /\ IsSearch(log[j]) /\ log[i].arg = log[j].arg) => i = j

C2_Witness ==
    /\ pc = "done"
    /\ \E q \in FailedQueries :
          \E k1, k2 \in DOMAIN taxid_cache :
             /\ k1 # k2
             /\ InSeq(q, Candidates(k1)) /\ InSeq(q, Candidates(k2))
             /\ ~Truthy(taxid_cache[k1]) /\ ~Truthy(taxid_cache[k2])

\* C3: the candidate loop is entered at most once per identity key, by the
\* first row carrying the key; the outcome is stored under the key; a later
\* row with the key takes the stored outcome and issues no search.
C3_OneResolutionPerKey ==
    /\ \A i, j \in LogIdx :
          (IsRowStart(log[i], "miss") /\ IsRowStart(log[j], "miss")
             /\ log[i].arg = log[j].arg) => i = j
    /\ \A j \in LogIdx :
          IsRowStart(log[j], "hit") =>
             /\ \E i \in 1..(j - 1) : IsRowStart(log[i], "miss") /\ log[i].arg = log[j].arg
             /\ \A n \in LogIdx : IsSearch(log[n]) => log[n].row # log[j].row
             /\ log[j].row = idx =>
                   /\ pc \in {"fetch_check", "fetch_sleep", "read_synonyms", "emit", "aborted"}
                   /\ taxid = taxid_cache[log[j].arg]
    /\ \A r \in 0..(Len(updated_rows) - 1) : RowKey(r) \in DOMAIN taxid_cache

C3_Witness ==
    /\ pc = "done"
    /\ \E i, j \in LogIdx :
          /\ IsRowStart(log[i], "miss")
          /\ IsRowStart(log[j], "hit")
          /\ log[i].arg = log[j].arg
          /\ Candidates(log[i].arg) # <<>>
          /\ ~Truthy(taxid_cache[log[i].arg])

\* C4: a row whose two names are empty after normalisation gets an empty
\* synonyms_ncbi field, and no search or fetch request is issued while it is
\* processed.
C4_EmptyRowNoNetwork ==
    /\ \A r \in 1..Len(updated_rows) :
          BothEmpty(rows[r]) => updated_rows[r].synonyms_ncbi = <<>>
    /\ \A i \in LogIdx :
          (IsSearch(log[i]) \/ IsFetch(log[i])) => ~BothEmpty(rows[log[i].row + 1])

C4_Witness ==
    /\ pc = "done"
    /\ Len(rows) = 2
    /\ BothEmpty(rows[2])
    /\ updated_rows[1].synonyms_ncbi # <<>>
    /\ updated_rows[2].synonyms_ncbi = <<>>

\* C5: when the search of every candidate of a row's key failed with a
\* request error, the row's field is empty and no fetch is issued for the
\* row; a request error never aborts the run (an abort only follows a
\* malformed body), and a finished run has emitted every row and written the
\* output.
C5_SearchFailureIsNotFatal ==
    /\ \A r \in 1..Len(updated_rows) :
          LET cands == Candidates(RowKey(r - 1))
          IN  (cands # <<>> /\ \A n \in 1..Len(cands) : cands[n] \in FailedQueries) =>
                 /\ updated_rows[r].synonyms_ncbi = <<>>
                 /\ \A i \in LogIdx : IsFetch(log[i]) => log[i].row # r - 1
    /\ pc = "aborted" => log[Len(log)].res = "malformed"
    /\ pc = "done" => written /\ Len(updated_rows) = Len(rows)

C5_Witness ==
    /\ pc = "done"
    /\ written
    /\ Len(rows) = 2
    /\ LET cands == Candidates(RowKey(0))
       IN  /\ Len(cands) >= 2
           /\ \A n \in 1..Len(cands) : cands[n] \in FailedQueries
    /\ updated_rows[2].synonyms_ncbi # <<>>

\* C6: whatever a search or fetch call returns, no exception escapes and
\* main is never aborted before the output is written.
C6_NoExceptionEscapes == pc # "aborted"

FooSp == <<"F", "o", "o", " ", "s", "p", ".">>

CalledWithFooSp ==
    /\ cq_pc \in {"queried", "done"}
    /\ cq_args.scientific = FooSp
    /\ format_common_name(cq_args.common) = <<>>

\* C7 (as stated): candidate_queries("Foo sp.", "") is exactly
\* ["Foo sp.", "Foo"].
C7_Original ==
    CalledWithFooSp => cq_ret = <<FooSp, <<"F", "o", "o">> >>

\* C7 (amended): candidate_queries("Foo sp.", "") is exactly
\* ["Foo sp.", "Foo sp", "Foo"]: the period-stripped candidate is generated
\* too, between the cleaned name and the species-suffix-stripped form.
C7_FooSpCandidates ==
    CalledWithFooSp =>
        cq_ret = <<FooSp, <<"F", "o", "o", " ", "s", "p">>, <<"F", "o", "o">> >>

C7_Witness == CalledWithFooSp /\ cq_args.common = <<>>

NetIdx == {i \in LogIdx : IsSearch(log[i]) \/ IsFetch(log[i])}

NetIdxOfKey(k) == {i \in NetIdx : RowKey(log[i].row) = k}

\* C8 (as stated): the number of network requests of a run is at most twice
\* the number of unique identity keys.
C8_Original == Cardinality(NetIdx) <= 2 * Cardinality(UniqueKeys)

\* C8 (amended): the rows of one identity key cost at most one search per
\* candidate of the key (at most four candidates) plus one fetch, so a run
\* issues at most five requests per unique identity key.
C8_CallsPerKey ==
    /\ \A k \in UniqueKeys :
          /\ Len(Candidates(k)) <= 4
          /\ Cardinality(NetIdxOfKey(k)) <= Len(Candidates(k)) + 1
    /\ Cardinality(NetIdx) <= 5 * Cardinality(UniqueKeys)

C8_Witness ==
    /\ pc = "done"
    /\ \E k \in UniqueKeys : Cardinality(NetIdxOfKey(k)) = 5

\* C9: the outcome stored for a key is the cached result of the first
\* candidate, in list order, whose result is a non-empty identifier; the
\* searches issued while resolving the key follow the candidate order and none
\* is issued for a candidate after that one; the outcome is "not found"
\* exactly when no candidate has an identifier.
C9_FirstSuccessInOrder ==
    /\ \A k \in DOMAIN taxid_cache :
          LET cands == Candidates(k)
              hits  == {n \in 1..Len(cands) :
                           cands[n] \in DOMAIN query_cache /\ Truthy(query_cache[cands[n]])}
          IN  IF hits = {}
              THEN /\ ~Truthy(taxid_cache[k])
                   /\ \A n \in 1..Len(cands) : cands[n] \in DOMAIN query_cache
              ELSE LET h == CHOOSE n \in hits : \A m \in hits : n <= m
                   IN  /\ taxid_cache[k] = query_cache[cands[h]]
                       /\ \A n \in 1..h : cands[n] \in DOMAIN query_cache
                       /\ \A i \in LogIdx :
                             (IsSearch(log[i]) /\ RowKey(log[i].row) = k) =>
                                PosIn(log[i].arg, cands) \in 1..h
    /\ \A i, j \in LogIdx :
          (i < j /\ IsSearch(log[i]) /\ IsSearch(log[j]) /\ log[i].row = log[j].row) =>
             LET cands == Candidates(RowKey(log[i].row))
             IN  /\ PosIn(log[i].arg, cands) > 0
                 /\ PosIn(log[i].arg, cands) < PosIn(log[j].arg, cands)

C9_Witness ==
    /\ pc = "done"
    /\ \E k \in DOMAIN taxid_cache :
          LET cands == Candidates(k)
          IN  /\ Len(cands) = 4
              /\ \A n \in 1..4 : cands[n] \in DOMAIN query_cache
              /\ ~Truthy(query_cache[cands[1]])
              /\ Truthy(query_cache[cands[2]])
              /\ ~Truthy(query_cache[cands[3]])
              /\ Truthy(query_cache[cands[4]])
              /\ taxid_cache[k] = query_cache[cands[2]]
              /\ query_cache[cands[4]] # query_cache[cands[2]]

\* C10: every search or fetch request that returns is followed by a sleep
\* before anything else happens, so no two requests are issued without a sleep
\* between them, and a sleep only ever follows a request (a cache hit causes
\* no delay).
C10_DelayAfterEveryCall ==
    /\ \A i \in LogIdx :
          /\ (i < Len(log) /\ (IsSearch(log[i]) \/ IsFetch(log[i]))) =>
                log[i + 1].ev = "sleep"
          /\ log[i].ev = "sleep" =>
                i > 1 /\ (IsSearch(log[i - 1]) \/ IsFetch(log[i - 1]))
    /\ (log # <<>> /\ (IsSearch(log[Len(log)]) \/ IsFetch(log[Len(log)]))) =>
          pc \in {"search_sleep", "fetch_sleep", "aborted"}

C10_Witness ==
    /\ pc = "done"
    /\ \E i, j \in LogIdx :
          /\ IsSearch(log[i]) /\ log[i].res = "error"
          /\ IsFetch(log[j]) /\ log[j].res = "error"
    /\ \E j \in LogIdx : IsRowStart(log[j], "hit")
    /\ Cardinality({i \in LogIdx : log[i].ev = "sleep"}) = Cardinality(NetIdx)
    /\ Cardinality(NetIdx) >= 3

====
